---- MODULE Spec2Model ----
(***************************************************************************)
(* Model of tg_reposter (src/main.py): a Telegram bot that forwards the    *)
(* posts of one source channel to a target chat (optionally into a topic)  *)
(* and offers a /copy command that forwards a post by id or link.          *)
(*                                                                         *)
(* Strings are sequences of one-character strings; "/copy" is one atomic   *)
(* symbol of the text alphabet.  An optional value is a sequence of length *)
(* 0 (Python None) or 1 (the value).                                       *)
(***************************************************************************)
EXTENDS Integers, Sequences, FiniteSets, Bags, TLC

(***************************************************************************)
(* Bounds of the model.                                                    *)
(***************************************************************************)
\* number of updates the polling loop feeds to the dispatcher in one run
MaxUpdates == 2
\* longest text given to parse_message_id in ParseSpec
MaxLen == 4

(***************************************************************************)
(* Optional values.                                                        *)
(***************************************************************************)
None == << >>
Some(v) == << v >>
IsNone(o) == Len(o) = 0
IsSome(o) == Len(o) = 1
Get(o) == o[1]

(***************************************************************************)
(* Characters and strings.                                                 *)
(***************************************************************************)
DigitChars == {"0", "1", "2", "3", "4", "5", "6", "7", "8", "9"}

\* str.isdigit() on the characters of the model's alphabets
IsDigit(ch) == ch \in DigitChars

\* str.isspace() on the characters of the model's alphabets
IsSpace(ch) == ch = " "

DigitVal(ch) ==
    CASE ch = "0" -> 0 [] ch = "1" -> 1 [] ch = "2" -> 2 [] ch = "3" -> 3
      [] ch = "4" -> 4 [] ch = "5" -> 5 [] ch = "6" -> 6 [] ch = "7" -> 7
      [] ch = "8" -> 8 [] ch = "9" -> 9

\* int(s) for a non-empty string of decimal digits
RECURSIVE StrToInt(_)
StrToInt(s) ==
    IF Len(s) = 0 THEN 0
    ELSE 10 * StrToInt(SubSeq(s, 1, Len(s) - 1)) + DigitVal(s[Len(s)])

\* whether int(s) succeeds (digits only; otherwise int() raises ValueError)
IsIntLiteral(s) == Len(s) > 0 /\ \A i \in 1..Len(s) : IsDigit(s[i])

\* str.split(): the maximal runs of non-whitespace characters, in order
RECURSIVE Split(_)
Split(s) ==
    IF Len(s) = 0 THEN << >>
    ELSE IF IsSpace(s[1]) THEN Split(Tail(s))
    ELSE LET stop == IF \E i \in 1..Len(s) : IsSpace(s[i])
                     THEN CHOOSE i \in 1..Len(s) :
                              /\ IsSpace(s[i])
                              /\ \A j \in 1..(i - 1) : ~IsSpace(s[j])
                     ELSE Len(s) + 1
         IN  << SubSeq(s, 1, stop - 1) >> \o Split(SubSeq(s, stop, Len(s)))

\* index of the first non-whitespace character at or after i (Len(s)+1 if none)
RECURSIVE SkipSpace(_, _)
SkipSpace(s, i) ==
    IF i > Len(s) THEN i
    ELSE IF IsSpace(s[i]) THEN SkipSpace(s, i + 1) ELSE i

\* index of the first whitespace character at or after i (Len(s)+1 if none)
RECURSIVE SkipWord(_, _)
SkipWord(s, i) ==
    IF i > Len(s) THEN i
    ELSE IF IsSpace(s[i]) THEN i ELSE SkipWord(s, i + 1)

\* str.split(maxsplit=1): the first word and, if anything but whitespace
\* follows it, the rest of the string from the next word on
SplitMax1(s) ==
    LET a == SkipSpace(s, 1)
        b == SkipWord(s, a)
        c == SkipSpace(s, b)
    IN  IF a > Len(s) THEN << >>
        ELSE IF c > Len(s) THEN << SubSeq(s, a, b - 1) >>
        ELSE << SubSeq(s, a, b - 1), SubSeq(s, c, Len(s)) >>

(***************************************************************************)
(* parse_message_id (src/main.py:64-67).                                   *)
(***************************************************************************)
\* "".join(ch if ch.isdigit() else " " for ch in text)
Blanked(text) == [i \in 1..Len(text) |-> IF IsDigit(text[i]) THEN text[i] ELSE " "]

\* parse_message_id taking the first digit run instead of the last
parse_message_id_FirstRun(text) ==
    LET digits == Split(Blanked(text))
    IN  IF Len(digits) > 0 THEN Some(StrToInt(digits[1])) ELSE None

parse_message_id(text) ==
    LET digits == Split(Blanked(text))
    IN  IF Len(digits) > 0 THEN Some(StrToInt(digits[Len(digits)])) ELSE None

\* a test against None where the code tests truthiness
Truthy_NotNone(o) == IsSome(o)

\* Python truthiness of an Optional[int]: None and 0 are falsy
Truthy(o) == IsSome(o) /\ Get(o) # 0


(***************************************************************************)
(* State.                                                                  *)
(***************************************************************************)
VARIABLES
    env,            \* the process environment read by load_settings
    main_pc,        \* where main() is: load_settings, get_me, delete_webhook,
                    \* polling, exit
    settings,       \* Optional Settings: None until load_settings returned
    startup_calls,  \* transport calls made by main() before polling
    nupdates,       \* updates fed to the dispatcher so far
    tasks,          \* bag of handler invocations, one per dispatched update
    ptext,          \* ParseSpec: the text given to parse_message_id
    presult,        \* ParseSpec: Optional result holder
    pdone           \* ParseSpec: whether parse_message_id has been applied

vars == << env, main_pc, settings, startup_calls, nupdates, tasks,
           ptext, presult, pdone >>

(***************************************************************************)
(* Configuration: load_settings (src/main.py:33-58).                       *)
(***************************************************************************)
EnvTokens == {None, Some(<< >>), Some(<<"t">>)}
EnvSources == {None, Some(<<"7">>)}
EnvTargets == {None, Some(<<"9">>)}
EnvTopics == {None, Some(<< >>), Some(<<"0">>), Some(<<"5">>)}

Environments ==
    [BOT_TOKEN : EnvTokens, SOURCE_CHANNEL_ID : EnvSources,
     TARGET_CHAT_ID : EnvTargets, TARGET_TOPIC_ID : EnvTopics]

\* Python truthiness of an Optional[str]: None and "" are falsy
StrTruthy(o) == IsSome(o) /\ Len(Get(o)) > 0

\* load_settings without the test of the token at line 43
load_settings_NoTokenCheck(e) ==
    IF ~StrTruthy(e.SOURCE_CHANNEL_ID) \/ ~StrTruthy(e.TARGET_CHAT_ID)
    THEN [raised |-> TRUE, value |-> None]
    ELSE [raised |-> FALSE,
          value |-> Some([source_channel_id |-> StrToInt(Get(e.SOURCE_CHANNEL_ID)),
                          target_chat_id |-> StrToInt(Get(e.TARGET_CHAT_ID)),
                          target_topic_id |->
                              IF StrTruthy(e.TARGET_TOPIC_ID)
                              THEN Some(StrToInt(Get(e.TARGET_TOPIC_ID)))
                              ELSE None])]

\* load_settings: raises (RuntimeError on a missing value, ValueError from
\* int()) or returns the Settings value
load_settings(e) ==
    IF ~StrTruthy(e.BOT_TOKEN) \/ ~StrTruthy(e.SOURCE_CHANNEL_ID)
          \/ ~StrTruthy(e.TARGET_CHAT_ID)
    THEN [raised |-> TRUE, value |-> None]
    ELSE IF ~IsIntLiteral(Get(e.SOURCE_CHANNEL_ID))
              \/ ~IsIntLiteral(Get(e.TARGET_CHAT_ID))
              \/ (StrTruthy(e.TARGET_TOPIC_ID) /\ ~IsIntLiteral(Get(e.TARGET_TOPIC_ID)))
    THEN [raised |-> TRUE, value |-> None]
    ELSE [raised |-> FALSE,
          value |-> Some([source_channel_id |-> StrToInt(Get(e.SOURCE_CHANNEL_ID)),
                          target_chat_id |-> StrToInt(Get(e.TARGET_CHAT_ID)),
                          target_topic_id |->
                              IF StrTruthy(e.TARGET_TOPIC_ID)
                              THEN Some(StrToInt(Get(e.TARGET_TOPIC_ID)))
                              ELSE None])]

\* the Settings value the handlers close over (defined once polling started)
S == Get(settings)

\* settings.target_topic_id or "-"  (None stands for the "-" placeholder)
TopicOrDash(topic) == IF Truthy(topic) THEN topic ELSE None

(***************************************************************************)
(* main (src/main.py:214-259).                                             *)
(***************************************************************************)
\* settings = load_settings(): raises out of main() or continues
MainLoadSettings ==
    /\ main_pc = "load_settings"
    /\ LET r == load_settings(env)
       IN  IF r.raised
           THEN /\ main_pc' = "exit"
                /\ UNCHANGED settings
           ELSE /\ main_pc' = "get_me"
                /\ settings' = r.value
    /\ UNCHANGED << env, startup_calls, nupdates, tasks, ptext, presult, pdone >>

\* await bot.get_me(): a failure is logged and re-raised
MainGetMe(ok) ==
    /\ main_pc = "get_me"
    /\ startup_calls' = Append(startup_calls, "getMe")
    /\ main_pc' = IF ok THEN "delete_webhook" ELSE "exit"
    /\ UNCHANGED << env, settings, nupdates, tasks, ptext, presult, pdone >>

\* await bot.delete_webhook(drop_pending_updates=True), then start_polling
MainDeleteWebhook(ok) ==
    /\ main_pc = "delete_webhook"
    /\ startup_calls' = Append(startup_calls, "deleteWebhook")
    /\ main_pc' = IF ok THEN "polling" ELSE "exit"
    /\ UNCHANGED << env, settings, nupdates, tasks, ptext, presult, pdone >>


(***************************************************************************)
(* Transport responses: the result of awaiting bot.forward_message or      *)
(* message.reply.  An exception is its class and its text.  The classes    *)
(* are those imported at src/main.py:13-17; TelegramBadRequest and         *)
(* TelegramForbiddenError are subclasses of TelegramAPIError, "Exception"  *)
(* stands for any failure that is no TelegramAPIError (a timeout, ...).    *)
(***************************************************************************)
Ok == [type |-> "ok", text |-> ""]
ErrThreadNotFound ==
    [type |-> "TelegramBadRequest", text |-> "message thread not found"]
ErrBadRequest ==
    [type |-> "TelegramBadRequest", text |-> "message to forward not found"]
ErrForbidden ==
    [type |-> "TelegramForbiddenError", text |-> "bot is not a member"]
ErrApi == [type |-> "TelegramAPIError", text |-> "too many requests"]
ErrOther == [type |-> "Exception", text |-> "timeout"]

ForwardErrors == {ErrThreadNotFound, ErrBadRequest, ErrForbidden, ErrApi, ErrOther}
ForwardResponses == {Ok} \cup ForwardErrors
ReplyErrors == {ErrForbidden, ErrApi, ErrOther}
ReplyResponses == {Ok} \cup ReplyErrors

IsOk(r) == r.type = "ok"

\* isinstance(e, TelegramBadRequest)
IsBadRequest(e) == e.type = "TelegramBadRequest"
\* isinstance(e, TelegramForbiddenError)
IsForbidden(e) == e.type = "TelegramForbiddenError"
\* isinstance(e, TelegramAPIError)
IsAPIError(e) ==
    e.type \in {"TelegramAPIError", "TelegramBadRequest", "TelegramForbiddenError"}

\* "message thread not found" in str(e)
ThreadNotFoundIn(e) == e.text = "message thread not found"

(***************************************************************************)
(* Updates.  A message carries its text or, for media, its caption; the    *)
(* text alphabet is the atomic symbol "/copy", the blank, digits and "a".  *)
(***************************************************************************)
SourceChat == 7
OtherChannel == 8
UserChat == 3

TextNoArg == <<"/copy">>
TextNoId == <<"/copy", " ", "a">>
TextZero == <<"/copy", " ", "a", "/", "0">>
TextLink == <<"/copy", " ", "1", "/", "a", "/", "2">>
TextPlain == <<"a", " ", "1">>

MessageEvents ==
    {[type |-> "message", chat |-> UserChat, message_id |-> 4,
      text |-> Some(x), caption |-> None] :
         x \in {TextNoArg, TextNoId, TextZero, TextLink, TextPlain}}
    \cup {[type |-> "message", chat |-> UserChat, message_id |-> 4,
           text |-> None, caption |-> Some(TextNoArg)]}

ChannelPostEvents ==
    {[type |-> "channel_post", chat |-> c, message_id |-> 1,
      text |-> Some(TextPlain), caption |-> None] : c \in {SourceChat, OtherChannel}}

EditedChannelPostEvents ==
    {[type |-> "edited_channel_post", chat |-> c, message_id |-> 1,
      text |-> Some(TextPlain), caption |-> None] : c \in {SourceChat, OtherChannel}}

(***************************************************************************)
(* Log records and handler invocations.                                    *)
(***************************************************************************)
\* One logger call: where it is, its level and what it states.  topic is
\* None when the record names no topic, Some(None) when it states that no
\* topic was used ("-" or "without topic"), Some(Some(n)) for topic n.
LogRec(site, level, message_id, from_chat_id, chat_id, topic) ==
    [site |-> site, level |-> level, message_id |-> message_id,
     from_chat_id |-> from_chat_id, chat_id |-> chat_id, topic |-> topic]

\* A handler invocation that has not run yet
NewTask(h, ev) ==
    [handler |-> h, ev |-> ev, pc |-> "done",
     msg_id |-> 0, from_chat_id |-> 0,
     calls |-> << >>,            \* forward_message calls made, with results
     relay |-> "not_called",     \* forward_message_with_fallback: not_called,
                                 \* running, returned, raised
     relay_exc |-> Ok,           \* the exception it raised
     replies |-> << >>,          \* message.reply calls made, with results
     pending_reply |-> "-",      \* template of the reply being awaited
     reply_in_try |-> FALSE,     \* the awaited reply is the one at line 130
     logs |-> << >>]

\* a forward call whose message id is kept in a variable that the
\* invocations share: it holds the id of whichever invocation wrote it last
ForwardCall_Shared(t, thread, result) ==
    [chat_id |-> S.target_chat_id, from_chat_id |-> t.from_chat_id,
     message_id |->
         IF \E u \in BagToSet(tasks) : u.msg_id > t.msg_id
         THEN (CHOOSE u \in BagToSet(tasks) : u.msg_id > t.msg_id).msg_id
         ELSE t.msg_id,
     message_thread_id |-> thread, result |-> result]

\* the bot.forward_message call of lines 71-76 / 91-95
ForwardCall(t, thread, result) ==
    [chat_id |-> S.target_chat_id, from_chat_id |-> t.from_chat_id,
     message_id |-> t.msg_id, message_thread_id |-> thread, result |-> result]

ReplyCall(template, result) == [template |-> template, result |-> result]


(***************************************************************************)
(* forward_message_with_fallback (src/main.py:69-103).                     *)
(***************************************************************************)
\* the retry condition without the test of the exception text
RetryGuard_AnyBadRequest(e) ==
    IsBadRequest(e) /\ Truthy(S.target_topic_id)

\* the retry condition without the test that a topic is set
RetryGuard_NoTopicTest(e) ==
    IsBadRequest(e) /\ ThreadNotFoundIn(e)

\* lines 84-85: the except clause and the condition under which it retries
RetryGuard(e) ==
    IsBadRequest(e) /\ ThreadNotFoundIn(e) /\ Truthy(S.target_topic_id)

\* a failed retry re-raising the primary call's exception
RetryRaised_Original(primary, retry) == primary

\* the exception that leaves the function when the retry of line 91 raises:
\* nothing catches it inside the except block
RetryRaised(primary, retry) == retry

\* lines 70-76 entered: the primary call is awaited
EngineEnter(t, message_id) ==
    [t EXCEPT !.msg_id = message_id,
              !.from_chat_id = S.source_channel_id,
              !.relay = "running",
              !.pc = "fwd_primary"]

\* the primary call (lines 71-76) completed with response r
EnginePrimary(t, r) ==
    LET called == [t EXCEPT !.calls = Append(@, ForwardCall(t, S.target_topic_id, r))]
    IN  IF IsOk(r)
        THEN [called EXCEPT
                 !.logs = Append(@, LogRec("engine_forwarded", "info",
                                           Some(t.msg_id), Some(t.from_chat_id),
                                           Some(S.target_chat_id),
                                           Some(TopicOrDash(S.target_topic_id)))),
                 !.relay = "returned"]
        ELSE IF RetryGuard(r)
        THEN [called EXCEPT
                 !.logs = Append(@, LogRec("engine_retrying", "warning",
                                           Some(t.msg_id), None, None,
                                           Some(S.target_topic_id))),
                 !.pc = "fwd_retry"]
        ELSE [called EXCEPT !.relay = "raised", !.relay_exc = r]

\* a retry that is tried once more when it fails with topic-not-found
EngineRetry_Again(t, r) ==
    LET called == [t EXCEPT !.calls = Append(@, ForwardCall(t, None, r))]
    IN  IF IsOk(r)
        THEN [called EXCEPT
                 !.logs = Append(@, LogRec("engine_forwarded_no_topic", "info",
                                           Some(t.msg_id), Some(t.from_chat_id),
                                           Some(S.target_chat_id), Some(None))),
                 !.relay = "returned"]
        ELSE IF IsBadRequest(r) /\ ThreadNotFoundIn(r) /\ Len(t.calls) < 2
        THEN called
        ELSE [called EXCEPT
                 !.relay = "raised",
                 !.relay_exc = RetryRaised(t.calls[1].result, r)]

\* the retry without topic (lines 91-95) completed with response r
EngineRetry(t, r) ==
    LET called == [t EXCEPT !.calls = Append(@, ForwardCall(t, None, r))]
    IN  IF IsOk(r)
        THEN [called EXCEPT
                 !.logs = Append(@, LogRec("engine_forwarded_no_topic", "info",
                                           Some(t.msg_id), Some(t.from_chat_id),
                                           Some(S.target_chat_id), Some(None))),
                 !.relay = "returned"]
        ELSE [called EXCEPT
                 !.relay = "raised",
                 !.relay_exc = RetryRaised(t.calls[1].result, r)]

(***************************************************************************)
(* copy_by_id (src/main.py:105-139).                                       *)
(***************************************************************************)
\* the except clause of lines 131-139 that catches e
ExceptClause(e) ==
    IF IsForbidden(e) THEN "forbidden"
    ELSE IF IsAPIError(e) THEN "api_error"
    ELSE "generic"

\* lines 131-139: log the exception and await the matching reply
CopyExcept(t, e) ==
    [t EXCEPT
        !.logs = Append(@, LogRec("copy_" \o ExceptClause(e), "error",
                                  Some(t.msg_id), None, None, None)),
        !.pending_reply = ExceptClause(e),
        !.reply_in_try = FALSE,
        !.pc = "reply"]

\* copy_by_id with the two hints of lines 118 and 122 exchanged
CopyEnter_SwappedHints(ev) ==
    LET t == [NewTask("copy_by_id", ev) EXCEPT
                 !.logs = << LogRec("copy_received", "info", None, None,
                                    Some(ev.chat), None) >>]
    IN  IF IsNone(ev.text)
        THEN t
        ELSE LET parts == SplitMax1(Get(ev.text))
             IN  IF Len(parts) < 2
                 THEN [t EXCEPT !.pending_reply = "format", !.pc = "reply"]
                 ELSE LET msg_id == parse_message_id(parts[2])
                      IN  IF ~Truthy(msg_id)
                          THEN [t EXCEPT !.pending_reply = "usage", !.pc = "reply"]
                          ELSE EngineEnter(t, Get(msg_id))

\* lines 107-129: from the handler's entry to its first await
CopyEnter(ev) ==
    LET t == [NewTask("copy_by_id", ev) EXCEPT
                 !.logs = << LogRec("copy_received", "info", None, None,
                                    Some(ev.chat), None) >>]
    IN  IF IsNone(ev.text)
        THEN t
        ELSE LET parts == SplitMax1(Get(ev.text))
             IN  IF Len(parts) < 2
                 THEN [t EXCEPT !.pending_reply = "usage", !.pc = "reply"]
                 ELSE LET msg_id == parse_message_id(parts[2])
                      IN  IF ~Truthy(msg_id)
                          THEN [t EXCEPT !.pending_reply = "format", !.pc = "reply"]
                          ELSE EngineEnter(t, Get(msg_id))

\* lines 125-139 once forward_message_with_fallback returned or raised
CopyAfterRelay(t) ==
    IF t.relay = "returned"
    THEN [t EXCEPT !.pending_reply = "success", !.reply_in_try = TRUE,
                   !.pc = "reply"]
    ELSE CopyExcept(t, t.relay_exc)

\* an awaited message.reply (lines 118, 122, 130, 133, 136, 139) completed
\* with response r: only the reply of line 130 is inside the try block
CopyReply(t, r) ==
    LET sent == [t EXCEPT !.replies = Append(@, ReplyCall(t.pending_reply, r)),
                          !.pending_reply = "-"]
    IN  IF IsOk(r) THEN [sent EXCEPT !.pc = "done"]
        ELSE IF t.reply_in_try THEN CopyExcept(sent, r)
        ELSE [sent EXCEPT !.pc = "raised"]

(***************************************************************************)
(* forward_channel_post, forward_channel_edit (src/main.py:141-187).       *)
(***************************************************************************)
\* the channel handlers without their own success record (lines 151, 174)
ChannelAfterRelay_Silent(t, prefix) ==
    IF t.relay = "returned"
    THEN [t EXCEPT !.pc = "done"]
    ELSE [t EXCEPT
            !.logs = Append(@, LogRec(prefix \o "_failed", "error",
                                      Some(t.ev.message_id),
                                      Some(S.source_channel_id), None, None)),
            !.pc = "done"]

\* lines 151-164 / 174-187 once forward_message_with_fallback returned or
\* raised; prefix is "post" or "edit"
ChannelAfterRelay(t, prefix) ==
    IF t.relay = "returned"
    THEN [t EXCEPT
            !.logs = Append(@, LogRec(prefix \o "_forwarded", "info",
                                      Some(t.ev.message_id),
                                      Some(S.source_channel_id),
                                      Some(S.target_chat_id),
                                      Some(TopicOrDash(S.target_topic_id)))),
            !.pc = "done"]
    ELSE [t EXCEPT
            !.logs = Append(@, LogRec(prefix \o "_failed", "error",
                                      Some(t.ev.message_id),
                                      Some(S.source_channel_id), None, None)),
            !.pc = "done"]

\* the caller's code after the engine returned or raised
AfterRelay(t) ==
    IF t.relay = "running" THEN t
    ELSE IF t.handler = "copy_by_id" THEN CopyAfterRelay(t)
    ELSE IF t.handler = "forward_channel_post" THEN ChannelAfterRelay(t, "post")
    ELSE ChannelAfterRelay(t, "edit")

(***************************************************************************)
(* log_any_channel_post, log_any_message (src/main.py:189-209).            *)
(***************************************************************************)
DiagEnter(h, ev) ==
    [NewTask(h, ev) EXCEPT
        !.logs = << LogRec(IF h = "log_any_message" THEN "diag_message"
                           ELSE "diag_channel_post",
                           "info", Some(ev.message_id), None, Some(ev.chat), None) >>]

(***************************************************************************)
(* The router (src/main.py:61-211): per update type, the handlers in       *)
(* registration order with their filters.  The observer of an update type  *)
(* calls the first handler whose filters pass and no other; handler flags  *)
(* are metadata for middlewares and the router installs none.              *)
(***************************************************************************)
MessageHandlers == << "copy_by_id", "log_any_message" >>
ChannelPostHandlers == << "forward_channel_post", "log_any_channel_post" >>
EditedChannelPostHandlers == << "forward_channel_edit" >>

\* Command("copy"): the first word of the text, or of the caption when the
\* message has no text, is the command
CommandCopy(ev) ==
    LET text == IF IsSome(ev.text) THEN ev.text ELSE ev.caption
    IN  /\ IsSome(text)
        /\ LET words == SplitMax1(Get(text))
           IN  Len(words) > 0 /\ words[1] = <<"/copy">>

\* a source filter that lets every chat pass
only_source_channel_Any(ev) == TRUE

\* only_source_channel = F.chat.id == settings.source_channel_id
only_source_channel(ev) == ev.chat = S.source_channel_id

Filter(h, ev) ==
    CASE h = "copy_by_id" -> CommandCopy(ev)
      [] h \in {"forward_channel_post", "forward_channel_edit"} -> only_source_channel(ev)
      [] OTHER -> TRUE

\* the handler the observer calls for ev, "unhandled" if no filter passes
Trigger(handlers, ev) ==
    IF \E i \in 1..Len(handlers) : Filter(handlers[i], ev)
    THEN handlers[CHOOSE i \in 1..Len(handlers) :
                      /\ Filter(handlers[i], ev)
                      /\ \A j \in 1..(i - 1) : ~Filter(handlers[j], ev)]
    ELSE "unhandled"

\* the called handler run from its entry to its first await
Enter(h, ev) ==
    CASE h = "copy_by_id" -> CopyEnter(ev)
      [] h \in {"forward_channel_post", "forward_channel_edit"} ->
             EngineEnter(NewTask(h, ev), ev.message_id)
      [] h \in {"log_any_channel_post", "log_any_message"} -> DiagEnter(h, ev)
      [] OTHER -> NewTask("unhandled", ev)

(***************************************************************************)
(* Actions of the polling phase.                                           *)
(***************************************************************************)
Replace(old, new) == (tasks (-) SetToBag({old})) (+) SetToBag({new})

PollingUnchanged == << env, main_pc, settings, startup_calls, ptext, presult, pdone >>

\* a dispatcher that drops an update whose message id was relayed before
Dispatch_Dedup(handlers, ev) ==
    /\ main_pc = "polling"
    /\ nupdates < MaxUpdates
    /\ nupdates' = nupdates + 1
    /\ tasks' = tasks (+) SetToBag({
           IF \E u \in BagToSet(tasks) :
                  u.relay # "not_called" /\ u.msg_id = ev.message_id
           THEN NewTask("unhandled", ev)
           ELSE Enter(Trigger(handlers, ev), ev)})
    /\ UNCHANGED PollingUnchanged

\* the dispatcher receives one update and starts its handler as a task
Dispatch(handlers, ev) ==
    /\ main_pc = "polling"
    /\ nupdates < MaxUpdates
    /\ nupdates' = nupdates + 1
    /\ tasks' = tasks (+) SetToBag({Enter(Trigger(handlers, ev), ev)})
    /\ UNCHANGED PollingUnchanged

DispatchMessage == \E ev \in MessageEvents : Dispatch(MessageHandlers, ev)

DispatchChannelPost == \E ev \in ChannelPostEvents : Dispatch(ChannelPostHandlers, ev)

DispatchEditedChannelPost ==
    \E ev \in EditedChannelPostEvents : Dispatch(EditedChannelPostHandlers, ev)

\* the awaited primary forward_message of some invocation completes
ForwardPrimary ==
    \E t \in BagToSet(tasks), r \in ForwardResponses :
        /\ t.pc = "fwd_primary"
        /\ tasks' = Replace(t, AfterRelay(EnginePrimary(t, r)))
        /\ UNCHANGED << nupdates, PollingUnchanged >>

\* the awaited retry forward_message of some invocation completes
ForwardRetry ==
    \E t \in BagToSet(tasks), r \in ForwardResponses :
        /\ t.pc = "fwd_retry"
        /\ tasks' = Replace(t, AfterRelay(EngineRetry(t, r)))
        /\ UNCHANGED << nupdates, PollingUnchanged >>

\* the awaited message.reply of some /copy invocation completes
Reply ==
    \E t \in BagToSet(tasks), r \in ReplyResponses :
        /\ t.pc = "reply"
        /\ tasks' = Replace(t, CopyReply(t, r))
        /\ UNCHANGED << nupdates, PollingUnchanged >>

(***************************************************************************)
(* Specification of the bot.                                               *)
(***************************************************************************)
Init ==
    /\ env \in Environments
    /\ main_pc = "load_settings"
    /\ settings = None
    /\ startup_calls = << >>
    /\ nupdates = 0
    /\ tasks = EmptyBag
    /\ ptext = << >>
    /\ presult = None
    /\ pdone = FALSE

Next ==
    \/ MainLoadSettings
    \/ \E ok \in BOOLEAN : MainGetMe(ok)
    \/ \E ok \in BOOLEAN : MainDeleteWebhook(ok)
    \/ DispatchMessage
    \/ DispatchChannelPost
    \/ DispatchEditedChannelPost
    \/ ForwardPrimary
    \/ ForwardRetry
    \/ Reply

Spec == Init /\ [][Next]_vars

\* The bot with one valid configuration per topic setting (none, topic 5)
ConcInit ==
    /\ Init
    /\ env.BOT_TOKEN = Some(<<"t">>)
    /\ IsSome(env.SOURCE_CHANNEL_ID)
    /\ IsSome(env.TARGET_CHAT_ID)
    /\ env.TARGET_TOPIC_ID \in {None, Some(<<"5">>)}

ConcSpec == ConcInit /\ [][Next]_vars

\* The bot when every awaited forward_message call eventually returns
FairSpec ==
    ConcInit /\ [][Next]_vars /\ WF_vars(ForwardPrimary) /\ WF_vars(ForwardRetry)

(***************************************************************************)
(* Specification of parse_message_id alone, over every text of at most     *)
(* MaxLen characters of ParseAlphabet.                                     *)
(***************************************************************************)
ParseAlphabet == {"0", "1", "2", "a", " "}

ParseTexts == UNION {[1..n -> ParseAlphabet] : n \in 0..MaxLen}

ParseInit ==
    /\ env = [BOT_TOKEN |-> None, SOURCE_CHANNEL_ID |-> None,
              TARGET_CHAT_ID |-> None, TARGET_TOPIC_ID |-> None]
    /\ main_pc = "exit"
    /\ settings = None
    /\ startup_calls = << >>
    /\ nupdates = 0
    /\ tasks = EmptyBag
    /\ ptext \in ParseTexts
    /\ presult = None
    /\ pdone = FALSE

\* msg_id = parse_message_id(text)
ParseApply ==
    /\ ~pdone
    /\ presult' = parse_message_id(ptext)
    /\ pdone' = TRUE
    /\ UNCHANGED << env, main_pc, settings, startup_calls, nupdates, tasks, ptext >>

ParseNext == ParseApply

ParseSpec == ParseInit /\ [][ParseNext]_vars


(***************************************************************************)
(* Vocabulary of the properties.                                           *)
(***************************************************************************)
Tasks == BagToSet(tasks)

Forwarders == {"copy_by_id", "forward_channel_post", "forward_channel_edit"}

Finished(t) == t.pc \in {"done", "raised"}

\* the topic-not-found class of failure: Bad Request "message thread not found"
TopicMissing(e) == IsBadRequest(e) /\ ThreadNotFoundIn(e)

\* the failure classes of the relay: Forbidden, ApiError, Unknown
FailureKind(e) ==
    IF e.type = "TelegramForbiddenError" THEN "Forbidden"
    ELSE IF e.type \in {"TelegramAPIError", "TelegramBadRequest"} THEN "ApiError"
    ELSE "Unknown"

\* the reply template that reports a failure class
TemplateOf(kind) ==
    CASE kind = "Forbidden" -> "forbidden"
      [] kind = "ApiError" -> "api_error"
      [] kind = "Unknown" -> "generic"

\* the outcome of a relay invocation
Outcome(t) ==
    IF t.relay = "returned"
    THEN [kind |-> "Delivered",
          usedTopic |-> IsSome(t.calls[Len(t.calls)].message_thread_id),
          failure |-> "-"]
    ELSE IF t.relay = "raised"
    THEN [kind |-> "Failed", usedTopic |-> FALSE, failure |-> FailureKind(t.relay_exc)]
    ELSE [kind |-> "Pending", usedTopic |-> FALSE, failure |-> "-"]

\* the templates of the replies an invocation has sent or is sending
Templates(t) ==
    {t.replies[i].template : i \in 1..Len(t.replies)}
        \cup (IF t.pc = "reply" THEN {t.pending_reply} ELSE {})

\* the first reply of an invocation, "-" when there is none yet
FirstTemplate(t) ==
    IF Len(t.replies) > 0 THEN t.replies[1].template ELSE t.pending_reply

LogSites(t) == {t.logs[i].site : i \in 1..Len(t.logs)}

\* the failure of a relay is reported by its caller as class kind
ReportedAs(t, kind) ==
    CASE t.handler = "copy_by_id" ->
             /\ FirstTemplate(t) = TemplateOf(kind)
             /\ ("copy_" \o TemplateOf(kind)) \in LogSites(t)
      [] t.handler = "forward_channel_post" -> "post_failed" \in LogSites(t)
      [] t.handler = "forward_channel_edit" -> "edit_failed" \in LogSites(t)

\* the retry call repeats the primary call with the topic omitted
IsRetryOf(retry, primary) ==
    /\ retry.chat_id = primary.chat_id
    /\ retry.from_chat_id = primary.from_chat_id
    /\ retry.message_id = primary.message_id
    /\ retry.message_thread_id = None

(***************************************************************************)
(* C1.  With a topic configured, a primary forward that fails with the     *)
(* topic-not-found error is followed by exactly one retry with the same    *)
(* destination, source and message id and no topic; a successful retry     *)
(* gives Delivered with usedTopic = FALSE; there is never a third call.    *)
(* Stated for every configured topic (target_topic_id is not None).        *)
(***************************************************************************)
C1_RetryOnceWithoutTopic ==
    \A t \in Tasks :
        (/\ IsSome(S.target_topic_id)
         /\ Len(t.calls) >= 1
         /\ TopicMissing(t.calls[1].result))
        => /\ Len(t.calls) <= 2
           /\ Len(t.calls) = 1 => t.pc = "fwd_retry"
           /\ Len(t.calls) = 2 =>
                 /\ IsRetryOf(t.calls[2], t.calls[1])
                 /\ IsOk(t.calls[2].result) =>
                        /\ Outcome(t).kind = "Delivered"
                        /\ ~Outcome(t).usedTopic

(***************************************************************************)
(* C2.  With a topic configured, a primary forward that fails with any     *)
(* error other than topic-not-found is not retried: one transport call is  *)
(* made and the outcome is Failed with the class of that failure.          *)
(***************************************************************************)
C2_OtherErrorNoRetry ==
    \A t \in Tasks :
        (/\ IsSome(S.target_topic_id)
         /\ Len(t.calls) >= 1
         /\ ~IsOk(t.calls[1].result)
         /\ ~TopicMissing(t.calls[1].result))
        => /\ Len(t.calls) = 1
           /\ t.pc \notin {"fwd_primary", "fwd_retry"}
           /\ t.relay = "raised"
           /\ t.relay_exc = t.calls[1].result
           /\ Outcome(t).kind = "Failed"
           /\ Outcome(t).failure = FailureKind(t.calls[1].result)
           /\ ReportedAs(t, FailureKind(t.calls[1].result))

C2_Witness ==
    \E t \in Tasks :
        /\ IsSome(S.target_topic_id)
        /\ t.handler = "copy_by_id"
        /\ Len(t.calls) = 1
        /\ t.calls[1].result = ErrBadRequest
        /\ t.pc = "done"

(***************************************************************************)
(* C3.  A channel post or edited channel post whose chat is not the        *)
(* source channel never reaches a forwarding handler: the relay is not     *)
(* invoked and no forward call is made for it.                             *)
(***************************************************************************)
C3_OtherChannelNeverRelayed ==
    \A t \in Tasks :
        (/\ t.ev.type \in {"channel_post", "edited_channel_post"}
         /\ t.ev.chat # S.source_channel_id)
        => /\ t.handler \notin Forwarders
           /\ t.relay = "not_called"
           /\ t.calls = << >>

C3_Witness ==
    \E t1 \in Tasks, t2 \in Tasks :
        /\ t1.ev.type = "channel_post"
        /\ t2.ev.type = "edited_channel_post"
        /\ t1.ev.chat # S.source_channel_id
        /\ t2.ev.chat # S.source_channel_id
        /\ Finished(t1) /\ Finished(t2)


(***************************************************************************)
(* C4.  A /copy command without argument makes no forward call and gets    *)
(* the usage hint; a /copy command whose argument holds no numeric id      *)
(* makes no forward call and gets the format hint.                         *)
(***************************************************************************)
\* the text that made the update a /copy command
CommandText(ev) == IF IsSome(ev.text) THEN Get(ev.text) ELSE Get(ev.caption)

NoArgument(ev) == Len(SplitMax1(CommandText(ev))) < 2

NoNumericId(ev) ==
    /\ ~NoArgument(ev)
    /\ LET arg == SplitMax1(CommandText(ev))[2]
       IN  \A i \in 1..Len(arg) : ~IsDigit(arg[i])

\* the hint is the only reply of the invocation: awaited or sent
Hinted(t, template) ==
    /\ t.calls = << >>
    /\ t.relay = "not_called"
    /\ Templates(t) = {template}
    /\ Len(t.replies) <= 1

\* C4 as stated: for every /copy command event, text or caption
C4_HintsForEveryCommand ==
    \A t \in Tasks :
        (t.ev.type = "message" /\ CommandCopy(t.ev))
        => /\ NoArgument(t.ev) => Hinted(t, "usage")
           /\ NoNumericId(t.ev) => Hinted(t, "format")

\* C4 amended: for every /copy command event whose message has a text, the
\* hints as stated; a command that arrives as the caption of a message
\* without text makes no forward call and gets no reply
C4_HintsForTextCommand ==
    \A t \in Tasks :
        (t.ev.type = "message" /\ CommandCopy(t.ev))
        => /\ t.handler = "copy_by_id"
           /\ IsSome(t.ev.text) =>
                 /\ NoArgument(t.ev) => Hinted(t, "usage")
                 /\ NoNumericId(t.ev) => Hinted(t, "format")
           /\ IsNone(t.ev.text) =>
                 /\ t.calls = << >>
                 /\ t.relay = "not_called"
                 /\ t.replies = << >>
                 /\ t.pc = "done"

C4_Witness ==
    \E t1 \in Tasks, t2 \in Tasks :
        /\ t1.handler = "copy_by_id" /\ t2.handler = "copy_by_id"
        /\ IsSome(t1.ev.text) /\ NoArgument(t1.ev)
        /\ IsSome(t2.ev.text) /\ NoNumericId(t2.ev)
        /\ t1.pc = "done" /\ t1.replies = << ReplyCall("usage", Ok) >>
        /\ t2.pc = "done" /\ t2.replies = << ReplyCall("format", Ok) >>

(***************************************************************************)
(* C5.  parse_message_id returns the value of the last maximal run of      *)
(* digits of its text, and None when the text holds no digit.              *)
(***************************************************************************)
HasDigit(s) == \E i \in 1..Len(s) : IsDigit(s[i])

\* the position of the last digit of s
LastDigit(s) ==
    CHOOSE j \in 1..Len(s) : IsDigit(s[j]) /\ \A k \in (j + 1)..Len(s) : ~IsDigit(s[k])

\* the position where the maximal digit run that ends at j starts
RunStart(s, j) ==
    CHOOSE i \in 1..j :
        /\ \A k \in i..j : IsDigit(s[k])
        /\ i = 1 \/ ~IsDigit(s[i - 1])

RECURSIVE Pow10(_)
Pow10(n) == IF n = 0 THEN 1 ELSE 10 * Pow10(n - 1)

\* the decimal value of s[i..j]
RECURSIVE Decimal(_, _, _)
Decimal(s, i, j) ==
    IF i > j THEN 0 ELSE DigitVal(s[i]) * Pow10(j - i) + Decimal(s, i + 1, j)

LastRunValue(s) == Decimal(s, RunStart(s, LastDigit(s)), LastDigit(s))

\* C5: the result is the value of the last digit run, or None without digits
C5_LastDigitRun ==
    pdone =>
        IF HasDigit(ptext) THEN presult = Some(LastRunValue(ptext))
        ELSE presult = None

\* several runs: the last one (1) is neither the first (20) nor the largest
C5_Witness ==
    /\ pdone
    /\ ptext = <<"2", "0", "a", "1">>
    /\ presult = Some(1)

\* no digit at all, the empty text included
C5_WitnessAbsent ==
    /\ pdone
    /\ ptext = << >>
    /\ presult = None

(***************************************************************************)
(* C6.  No failure raised inside a handler invocation, a failing forward   *)
(* call or a failing reply included, propagates out of the handler.        *)
(***************************************************************************)
C6_FailuresContained == \A t \in Tasks : t.pc # "raised"

(***************************************************************************)
(* C7.  Every message and channel post is logged by the diagnostic         *)
(* handler, whether or not a specific handler matches it too.              *)
(***************************************************************************)
C7_DiagnosticLogsEveryEvent ==
    \A t \in Tasks :
        (t.ev.type \in {"message", "channel_post"} /\ Finished(t))
        => \E i \in 1..Len(t.logs) :
               /\ t.logs[i].site \in {"diag_message", "diag_channel_post"}
               /\ t.logs[i].message_id = Some(t.ev.message_id)

(***************************************************************************)
(* C8.  The replies of a /copy command that reached the relay match the    *)
(* relay's outcome: the success reply iff Delivered, the permission reply  *)
(* iff Failed Forbidden, the API-error reply iff Failed ApiError, the      *)
(* generic reply iff Failed Unknown.                                       *)
(***************************************************************************)
C8_ReplyMatchesOutcome ==
    \A t \in Tasks :
        (t.handler = "copy_by_id" /\ t.relay \in {"returned", "raised"} /\ Finished(t))
        => /\ "success" \in Templates(t) <=> Outcome(t).kind = "Delivered"
           /\ \A kind \in {"Forbidden", "ApiError", "Unknown"} :
                  TemplateOf(kind) \in Templates(t)
                      <=> (Outcome(t).kind = "Failed" /\ Outcome(t).failure = kind)

(***************************************************************************)
(* C9.  When the retry without topic fails, no further call is made and    *)
(* the outcome is Failed with the class of the retry's failure.            *)
(***************************************************************************)
C9_RetryFailureIsTerminal ==
    \A t \in Tasks :
        /\ Len(t.calls) <= 2
        /\ (Len(t.calls) = 2 /\ ~IsOk(t.calls[2].result))
           => /\ t.pc \notin {"fwd_primary", "fwd_retry"}
              /\ t.relay = "raised"
              /\ t.relay_exc = t.calls[2].result
              /\ Outcome(t).kind = "Failed"
              /\ Outcome(t).failure = FailureKind(t.calls[2].result)
              /\ ReportedAs(t, FailureKind(t.calls[2].result))

C9_Witness ==
    \E t \in Tasks :
        /\ t.handler = "copy_by_id"
        /\ Len(t.calls) = 2
        /\ TopicMissing(t.calls[1].result)
        /\ t.calls[2].result = ErrForbidden
        /\ t.pc = "done"

(***************************************************************************)
(* C10.  Every terminal outcome of a relay has a log record of its kind    *)
(* with the message id, and a delivery has a success record that states    *)
(* the topic actually used: no success record of a request delivered by    *)
(* the fallback states that the configured topic was used.                 *)
(***************************************************************************)
SuccessSites ==
    {"engine_forwarded", "engine_forwarded_no_topic", "post_forwarded", "edit_forwarded"}

FailureSites ==
    {"copy_forbidden", "copy_api_error", "copy_generic", "post_failed", "edit_failed"}

\* C10: each outcome is logged and a fallback delivery never logs the topic
C10_LogsStateTopicUsed ==
    \A t \in Tasks :
        /\ (t.relay = "raised" /\ t.pc # "fwd_retry")
           => \E i \in 1..Len(t.logs) :
                  /\ t.logs[i].site \in FailureSites
                  /\ t.logs[i].message_id = Some(t.msg_id)
        /\ t.relay = "returned"
           => /\ \E i \in 1..Len(t.logs) :
                     /\ t.logs[i].site \in SuccessSites
                     /\ t.logs[i].message_id = Some(t.msg_id)
              /\ Len(t.calls) = 2
                 => \A i \in 1..Len(t.logs) :
                        t.logs[i].site \in SuccessSites
                            => t.logs[i].topic = Some(None)


(***************************************************************************)
(* C11.  A post of the source channel whose primary forward (to the target *)
(* chat, with the configured topic) succeeds: the relay is called with the *)
(* source channel and the post's message id, makes one transport call and  *)
(* delivers with usedTopic = TRUE; no reply is sent.                       *)
(***************************************************************************)
\* t handled a post of the source channel and its primary call succeeded
PostDelivered(t) ==
    /\ t.ev.type = "channel_post"
    /\ t.ev.chat = S.source_channel_id
    /\ IsSome(S.target_topic_id)
    /\ Len(t.calls) >= 1
    /\ IsOk(t.calls[1].result)

RelayedOnceWithTopic(t) ==
    /\ t.handler = "forward_channel_post"
    /\ t.pc = "done"
    /\ t.from_chat_id = S.source_channel_id
    /\ t.msg_id = t.ev.message_id
    /\ t.calls = << [chat_id |-> S.target_chat_id,
                     from_chat_id |-> S.source_channel_id,
                     message_id |-> t.ev.message_id,
                     message_thread_id |-> S.target_topic_id,
                     result |-> Ok] >>
    /\ Outcome(t).kind = "Delivered"
    /\ Outcome(t).usedTopic
    /\ t.replies = << >>
    /\ t.pending_reply = "-"

\* C11 as stated: exactly one log record is emitted for the event
C11_OneCallOneRecord ==
    \A t \in Tasks :
        PostDelivered(t) => (RelayedOnceWithTopic(t) /\ Len(t.logs) = 1)

\* C11 amended: two log records are emitted, the relay's (line 77) and the
\* handler's (line 151), both success records
C11_OneCallTwoRecords ==
    \A t \in Tasks :
        PostDelivered(t)
        => /\ RelayedOnceWithTopic(t)
           /\ Len(t.logs) = 2
           /\ t.logs[1].site = "engine_forwarded"
           /\ t.logs[2].site = "post_forwarded"

C11_Witness ==
    \E t \in Tasks :
        /\ PostDelivered(t)
        /\ S.target_topic_id = Some(5)
        /\ t.ev.message_id = 1
        /\ t.pc = "done"

(***************************************************************************)
(* C12.  Every edited post of the source channel gets a fresh forward call *)
(* for its message id, through the relay used for new posts, whether or    *)
(* not that message id was forwarded before.                               *)
(***************************************************************************)
C12_EditAlwaysForwarded ==
    \A t \in Tasks :
        (t.ev.type = "edited_channel_post" /\ t.ev.chat = S.source_channel_id)
        => /\ t.handler = "forward_channel_edit"
           /\ t.relay # "not_called"
           /\ t.msg_id = t.ev.message_id
           /\ t.from_chat_id = S.source_channel_id
           /\ t.pc = "fwd_primary" \/ Len(t.calls) >= 1
           /\ Len(t.calls) >= 1 =>
                 /\ t.calls[1].chat_id = S.target_chat_id
                 /\ t.calls[1].from_chat_id = S.source_channel_id
                 /\ t.calls[1].message_id = t.ev.message_id
                 /\ t.calls[1].message_thread_id = S.target_topic_id

\* the edit of a message that a new-post invocation has already delivered
C12_Witness ==
    \E t1 \in Tasks, t2 \in Tasks :
        /\ t1.ev.type = "channel_post"
        /\ t1.relay = "returned"
        /\ t2.ev.type = "edited_channel_post"
        /\ t2.ev.message_id = t1.ev.message_id
        /\ Len(t2.calls) >= 1
        /\ t2.pc = "done"

(***************************************************************************)
(* C13.  When the token, the source channel or the target chat is missing  *)
(* from the environment, load_settings raises: no Settings value exists,   *)
(* the transport is never contacted and polling never starts.              *)
(***************************************************************************)
Missing(o) == IsNone(o) \/ Get(o) = << >>

C13_MissingConfigIsFatal ==
    (Missing(env.BOT_TOKEN) \/ Missing(env.SOURCE_CHANNEL_ID)
        \/ Missing(env.TARGET_CHAT_ID))
    => /\ settings = None
       /\ startup_calls = << >>
       /\ main_pc \in {"load_settings", "exit"}
       /\ nupdates = 0
       /\ tasks = EmptyBag

C13_Witness ==
    /\ IsNone(env.BOT_TOKEN)
    /\ IsSome(env.SOURCE_CHANNEL_ID)
    /\ IsSome(env.TARGET_CHAT_ID)
    /\ main_pc = "exit"


(***************************************************************************)
(* C14.  Every forward call goes to settings.target_chat_id, comes from    *)
(* settings.source_channel_id and has a strictly positive message id; a    *)
(* /copy argument whose last digit run is 0 never reaches the transport.   *)
(***************************************************************************)
\* the /copy argument of a text command, when it has one with a digit
ZeroArgument(ev) ==
    /\ IsSome(ev.text)
    /\ CommandCopy(ev)
    /\ ~NoArgument(ev)
    /\ LET arg == SplitMax1(Get(ev.text))[2]
       IN  HasDigit(arg) /\ LastRunValue(arg) = 0

\* C14: target, source and a positive message id on every forward call
C14_ForwardCallsWellFormed ==
    \A t \in Tasks :
        /\ \A i \in 1..Len(t.calls) :
               /\ t.calls[i].chat_id = S.target_chat_id
               /\ t.calls[i].from_chat_id = S.source_channel_id
               /\ t.calls[i].message_id > 0
        /\ t.pc \in {"fwd_primary", "fwd_retry"}
           => (t.msg_id > 0 /\ t.from_chat_id = S.source_channel_id)
        /\ (t.ev.type = "message" /\ ZeroArgument(t.ev))
           => (t.relay = "not_called" /\ t.calls = << >>
               /\ t.pc \notin {"fwd_primary", "fwd_retry"})

C14_Witness ==
    \E t1 \in Tasks, t2 \in Tasks :
        /\ t1.ev.type = "message" /\ ZeroArgument(t1.ev)
        /\ t1.pc = "done"
        /\ t2.handler = "copy_by_id"
        /\ Len(t2.calls) = 2

(***************************************************************************)
(* C15.  In every Settings value target_topic_id is None or a non-zero     *)
(* integer, so "a topic was specified" and "the topic is truthy" agree.    *)
(***************************************************************************)
C15_TopicNeverZero ==
    IsSome(settings)
    => /\ IsNone(S.target_topic_id) \/ Get(S.target_topic_id) # 0
       /\ IsSome(S.target_topic_id) <=> Truthy(S.target_topic_id)

(***************************************************************************)
(* C16.  Concurrent handler invocations share no mutable state: Settings   *)
(* stays what load_settings returned, and under every interleaving each    *)
(* invocation is exactly what its handler produces when run alone on the   *)
(* same event with the same transport responses.                           *)
(***************************************************************************)
HandlersFor(ev) ==
    CASE ev.type = "message" -> MessageHandlers
      [] ev.type = "channel_post" -> ChannelPostHandlers
      [] ev.type = "edited_channel_post" -> EditedChannelPostHandlers

\* the invocation u run alone through the forward responses rs
RECURSIVE SoloForwards(_, _)
SoloForwards(u, rs) ==
    IF Len(rs) = 0 THEN u
    ELSE IF u.pc = "fwd_primary"
    THEN SoloForwards(AfterRelay(EnginePrimary(u, Head(rs))), Tail(rs))
    ELSE IF u.pc = "fwd_retry"
    THEN SoloForwards(AfterRelay(EngineRetry(u, Head(rs))), Tail(rs))
    ELSE u

\* the invocation u run alone through the reply responses rs
RECURSIVE SoloReplies(_, _)
SoloReplies(u, rs) ==
    IF Len(rs) = 0 THEN u
    ELSE IF u.pc = "reply" THEN SoloReplies(CopyReply(u, Head(rs)), Tail(rs))
    ELSE u

\* the handler of t's event run alone with the responses t received
Solo(t) ==
    SoloReplies(
        SoloForwards(Enter(Trigger(HandlersFor(t.ev), t.ev), t.ev),
                     [i \in 1..Len(t.calls) |-> t.calls[i].result]),
        [i \in 1..Len(t.replies) |-> t.replies[i].result])

\* C16: Settings is fixed and every invocation equals its solo run
C16_InvocationsIndependent ==
    /\ IsSome(settings) => settings = load_settings(env).value
    /\ \A t \in Tasks : t = Solo(t)

\* two invocations in flight at once, each past its first transport call
C16_Witness ==
    \E t1 \in Tasks, t2 \in Tasks :
        /\ t1.pc = "fwd_retry"
        /\ t2.pc = "reply"
        /\ Len(t2.calls) = 1
        /\ t1.msg_id # t2.msg_id


(***************************************************************************)
(* C17.  When every transport call eventually returns, every relay         *)
(* invocation reaches a terminal outcome, Delivered or Failed, after at    *)
(* most two forward calls: the fallback is not entered a second time.      *)
(***************************************************************************)
NoRelayRunning == \A t \in Tasks : t.relay # "running"

AtMostTwoCalls ==
    \A t \in Tasks :
        /\ Len(t.calls) <= 2
        /\ t.relay \in {"returned", "raised"} =>
               (Len(t.calls) \in {1, 2} /\ Outcome(t).kind \in {"Delivered", "Failed"})

\* C17: never a third call, and eventually no relay is left running
C17_RelayTerminates == []AtMostTwoCalls /\ <>[]NoRelayRunning

C17_Witness ==
    \E t1 \in Tasks, t2 \in Tasks :
        /\ Len(t1.calls) = 2 /\ t1.relay = "returned"
        /\ Len(t2.calls) = 2 /\ t2.relay = "raised"

(***************************************************************************)
(* C18.  Without a configured topic every relay invocation makes one       *)
(* forward call whatever the failure, topic-not-found included; a retry    *)
(* happens only after a topic-not-found failure with a topic specified,    *)
(* and it is the only call that omits a configured topic.                  *)
(***************************************************************************)
C18_NoTopicNoRetry ==
    \A t \in Tasks :
        /\ IsNone(S.target_topic_id)
           => (Len(t.calls) <= 1 /\ t.pc # "fwd_retry")
        /\ (t.pc = "fwd_retry" \/ Len(t.calls) >= 2)
           => (TopicMissing(t.calls[1].result) /\ IsSome(S.target_topic_id))
        /\ \A i \in 1..Len(t.calls) :
               t.calls[i].message_thread_id =
                   (IF i = 1 THEN S.target_topic_id ELSE None)

C18_Witness ==
    \E t \in Tasks :
        /\ IsNone(S.target_topic_id)
        /\ Len(t.calls) = 1
        /\ TopicMissing(t.calls[1].result)
        /\ t.relay = "raised"
        /\ t.pc = "done"

(***************************************************************************)
(* C19.  A /copy invocation sends at most one reply, and a failure reply   *)
(* (permission, API error, generic) only when the forward itself failed:   *)
(* after a delivery no failure reply is attempted, even when sending the   *)
(* success reply fails.                                                    *)
(***************************************************************************)
FailureTemplates == {"forbidden", "api_error", "generic"}

\* C19: at most one reply, a failure reply only after a failed forward
C19_OneReplyAndNoFailureAfterDelivery ==
    \A t \in Tasks :
        t.handler = "copy_by_id"
        => /\ Len(t.replies) + (IF t.pc = "reply" THEN 1 ELSE 0) <= 1
           /\ (Templates(t) \cap FailureTemplates # {}) => t.relay = "raised"

====
